---- MODULE Spec2Model ----
(***************************************************************************)
(* Felisha meeting assistant (felisha-agent/main.py): one session of       *)
(* entrypoint(), the transcription tasks it spawns, and save_transcript(). *)
(*                                                                         *)
(* Everything runs on one asyncio event loop, so the code between two      *)
(* awaits is one atomic step.  Strings are sequences of one-character      *)
(* strings, so that strip(), join() and the f-string are computed.         *)
(***************************************************************************)
EXTENDS Integers, Sequences, FiniteSets, TLC

\* ---------------------------------------------------------------- bounds
MaxTracks == 2

\* ---------------------------------------------------------------- strings
Whitespace == {" ", "\n", "\t"}

RECURSIVE LStrip(_)
LStrip(s) == IF s # <<>> /\ Head(s) \in Whitespace THEN LStrip(Tail(s)) ELSE s

RECURSIVE RStrip(_)
RStrip(s) ==
    IF s # <<>> /\ s[Len(s)] \in Whitespace
    THEN RStrip(SubSeq(s, 1, Len(s) - 1))
    ELSE s

\* str.strip()
Strip(s) == RStrip(LStrip(s))

\* a join that separates the lines with a space instead of a newline
RECURSIVE JoinWithSpace(_)
JoinWithSpace(lines) ==
    IF lines = <<>> THEN <<>>
    ELSE IF Len(lines) = 1 THEN lines[1]
    ELSE lines[1] \o <<" ">> \o JoinWithSpace(Tail(lines))

\* "\n".join(lines)
RECURSIVE Join(_)
Join(lines) ==
    IF lines = <<>> THEN <<>>
    ELSE IF Len(lines) = 1 THEN lines[1]
    ELSE lines[1] \o <<"\n">> \o Join(Tail(lines))

\* ---------------------------------------------------------------- inputs
Alice == <<"A", "l", "i", "c", "e">>
Bob == <<"B", "o", "b">>
Unknown == <<"U", "n", "k", "n", "o", "w", "n">>
RoomName == <<"r", "1">>

TxtHel == <<"h", "e", "l">>
TxtHello == <<"H", "e", "l", "l", "o", " ", "t", "h", "e", "r", "e">>
TxtHiPadded == <<" ", "H", "i", " ">>
TxtYo == <<"Y", "o">>
TxtBlank == <<" ">>
TxtOk == <<"O", "k">>

\* agents.stt.SpeechEvent: a type and the list of alternatives' texts;
\* rtc.RemoteParticipant: name and identity, either may be empty
Interim(t) == [type |-> "INTERIM_TRANSCRIPT", alternatives |-> <<t>>]
Final(t) == [type |-> "FINAL_TRANSCRIPT", alternatives |-> <<t>>]
FinalNoAlts == [type |-> "FINAL_TRANSCRIPT", alternatives |-> <<>>]

\* the tracks the room transport can report as subscribed
PAlice == [name |-> Alice, identity |-> <<"u", "1">>]
PBob == [name |-> <<>>, identity |-> Bob]
PAnon == [name |-> <<>>, identity |-> <<>>]

StreamHello == <<Interim(TxtHel), Final(TxtHello)>>
StreamHiYo == <<Final(TxtHiPadded), Final(TxtYo)>>
StreamQuiet == <<FinalNoAlts, Final(TxtBlank), Final(TxtOk)>>

TrackInputs ==
    { [kind |-> "KIND_AUDIO", participant |-> PAlice, stream |-> StreamHello],
      [kind |-> "KIND_AUDIO", participant |-> PBob, stream |-> StreamHiYo],
      [kind |-> "KIND_AUDIO", participant |-> PAnon, stream |-> StreamQuiet],
      [kind |-> "KIND_VIDEO", participant |-> PAlice, stream |-> <<>>] }

\* ---------------------------------------------------------------- state
VARIABLES
    pc,                \* where entrypoint() is suspended
    handlers,          \* events of ctx.room that have a handler registered
    tracks,            \* tracks the room has reported subscribed, in order
    disconnect_event,  \* asyncio.Event: is it set
    transcript_lines,  \* the shared list of lines
    active_tasks,      \* the list of transcription tasks
    final_transcript,  \* the joined string computed at line 78
    posts,             \* the calls of save_transcript, as their payloads
    response           \* how the POST of save_transcript ended

vars == <<pc, handlers, tracks, disconnect_event,
          transcript_lines, active_tasks, final_transcript, posts, response>>

Init ==
    /\ pc = "connecting"
    /\ handlers = {}
    /\ tracks = <<>>
    /\ disconnect_event = FALSE
    /\ transcript_lines = <<>>
    /\ active_tasks = <<>>
    /\ final_transcript = <<>>
    /\ posts = <<>>
    /\ response = "none"

\* ---------------------------------------------------------------- worker
\* a label that prefers the identity to the name
LabelIdentityFirst(p) ==
    IF p.identity # <<>> THEN p.identity
    ELSE IF p.name # <<>> THEN p.name
    ELSE Unknown

\* participant.name or participant.identity or "Unknown"
Label(p) ==
    IF p.name # <<>> THEN p.name
    ELSE IF p.identity # <<>> THEN p.identity
    ELSE Unknown

\* f"{participant_name}: {text}"
FormatLine(participant_name, text) == participant_name \o <<":", " ">> \o text

\* a loop body that forgets the check of the event type
LinesForAnyType(participant_name, event) ==
    IF event.alternatives # <<>> /\ Strip(event.alternatives[1]) # <<>>
    THEN <<FormatLine(participant_name, Strip(event.alternatives[1]))>>
    ELSE <<>>

\* the lines one event adds: the body of the async for loop
LinesFor(participant_name, event) ==
    IF event.type = "FINAL_TRANSCRIPT"
    THEN IF event.alternatives # <<>> /\ Strip(event.alternatives[1]) # <<>>
         THEN <<FormatLine(participant_name, Strip(event.alternatives[1]))>>
         ELSE <<>>
    ELSE <<>>

\* an insert at the front instead of an append
ListPrepend(lst, new) == new \o lst

\* an assignment of the new line in place of an append
ListOverwrite(lst, new) == IF new = <<>> THEN lst ELSE new

\* transcript_lines.append(line)
ListAppend(lst, new) == lst \o new

NewTask(k, p) ==
    [track |-> k, participant_name |-> Label(p), pos |-> 0,
     state |-> "running", must_cancel |-> FALSE]

StreamOf(t) == tracks[t.track].stream

\* a task that would not see a pending cancellation
CanResumeIgnoringCancel(t) == t.state = "running"

\* a task is resumed with the next event only if no cancellation is pending
CanResume(t) == t.state = "running" /\ ~t.must_cancel

\* one iteration of the async for loop
WorkerConsume(i) ==
    /\ i \in DOMAIN active_tasks
    /\ CanResume(active_tasks[i])
    /\ active_tasks[i].pos < Len(StreamOf(active_tasks[i]))
    /\ LET t == active_tasks[i]
           event == StreamOf(t)[t.pos + 1]
       IN /\ transcript_lines' =
                ListAppend(transcript_lines, LinesFor(t.participant_name, event))
          /\ active_tasks' = [active_tasks EXCEPT ![i].pos = t.pos + 1]
    /\ UNCHANGED <<pc, handlers, tracks, disconnect_event,
                   final_transcript, posts, response>>

\* the stream ends: the async for loop exits
WorkerEnd(i) ==
    /\ i \in DOMAIN active_tasks
    /\ CanResume(active_tasks[i])
    /\ active_tasks[i].pos = Len(StreamOf(active_tasks[i]))
    /\ active_tasks' = [active_tasks EXCEPT ![i].state = "finished"]
    /\ UNCHANGED <<pc, handlers, tracks, disconnect_event,
                   transcript_lines, final_transcript, posts, response>>

\* a failure that is not caught in the task and cancels the sibling tasks
WorkerFailPropagates(i) ==
    /\ i \in DOMAIN active_tasks
    /\ active_tasks[i].state = "running" /\ ~active_tasks[i].must_cancel
    /\ active_tasks' =
         [j \in DOMAIN active_tasks |->
            IF j = i THEN [active_tasks[j] EXCEPT !.state = "failed"]
            ELSE IF active_tasks[j].state = "running"
                 THEN [active_tasks[j] EXCEPT !.must_cancel = TRUE]
                 ELSE active_tasks[j]]
    /\ UNCHANGED <<pc, handlers, tracks, disconnect_event,
                   transcript_lines, final_transcript, posts, response>>

\* the transducer or the stream raises: caught and logged by the task
WorkerFail(i) ==
    /\ i \in DOMAIN active_tasks
    /\ CanResume(active_tasks[i])
    /\ active_tasks' = [active_tasks EXCEPT ![i].state = "failed"]
    /\ UNCHANGED <<pc, handlers, tracks, disconnect_event,
                   transcript_lines, final_transcript, posts, response>>

\* the task is resumed with CancelledError, which it swallows
WorkerCancelled(i) ==
    /\ i \in DOMAIN active_tasks
    /\ active_tasks[i].state = "running"
    /\ active_tasks[i].must_cancel
    /\ active_tasks' = [active_tasks EXCEPT ![i].state = "cancelled"]
    /\ UNCHANGED <<pc, handlers, tracks, disconnect_event,
                   transcript_lines, final_transcript, posts, response>>

\* ---------------------------------------------------------------- room events
\* the handler of "track_subscribed"
on_track_subscribed(k, track) ==
    IF track.kind = "KIND_AUDIO"
    THEN active_tasks' = Append(active_tasks, NewTask(k, track.participant))
    ELSE active_tasks' = active_tasks

\* the room reports a subscribed track; without a handler the event is dropped
TrackSubscribed ==
    /\ Len(tracks) < MaxTracks
    /\ \E track \in TrackInputs :
        /\ tracks' = Append(tracks, track)
        /\ IF "track_subscribed" \in handlers
           THEN on_track_subscribed(Len(tracks) + 1, track)
           ELSE active_tasks' = active_tasks
    /\ UNCHANGED <<pc, handlers, disconnect_event,
                   transcript_lines, final_transcript, posts, response>>

\* a handler that pulses the event: a second firing clears it again
on_disconnectedToggles == disconnect_event' = ~disconnect_event

\* the handler of "disconnected"
on_disconnected == disconnect_event' = TRUE

\* the room fires "disconnected", any number of times; a room that closes
\* before connect() has returned makes connect() fail, which is no session
Disconnected ==
    /\ pc # "connecting"
    /\ IF "disconnected" \in handlers
       THEN on_disconnected
       ELSE disconnect_event' = disconnect_event
    /\ UNCHANGED <<pc, handlers, tracks, transcript_lines, active_tasks,
                   final_transcript, posts, response>>

\* ---------------------------------------------------------------- controller
\* ctx.connect() returns; entrypoint registers both handlers and waits
ConnectReturn ==
    /\ pc = "connecting"
    /\ pc' = "waiting"
    /\ handlers' = {"track_subscribed", "disconnected"}
    /\ UNCHANGED <<tracks, disconnect_event, transcript_lines,
                   active_tasks, final_transcript, posts, response>>

\* a cancel that also marks a task that is already done
CancelAnyTask(t) == [t EXCEPT !.must_cancel = TRUE, !.state = "cancelled"]

\* task.cancel(): nothing on a task that is done, else a pending cancellation
Cancel(t) ==
    IF t.state = "running" THEN [t EXCEPT !.must_cancel = TRUE] ELSE t

\* a wait that returns without the event
WaitReturnsAtOnce == TRUE

\* a wait that also waits for every task to end
WaitReturnsAfterTasks ==
    /\ disconnect_event
    /\ \A i \in DOMAIN active_tasks : active_tasks[i].state # "running"

\* await disconnect_event.wait() returns once the event is set
WaitReturns == disconnect_event

\* a save that is not guarded by the emptiness check
ShouldSaveAlways(transcript) == TRUE

\* if final_transcript.strip()
ShouldSave(transcript) == Strip(transcript) # <<>>

\* disconnect_event.wait() returns: cancel the tasks, join, save or skip
Finalize ==
    /\ pc = "waiting"
    /\ WaitReturns
    /\ active_tasks' = [i \in DOMAIN active_tasks |-> Cancel(active_tasks[i])]
    /\ final_transcript' = Join(transcript_lines)
    /\ IF ShouldSave(Join(transcript_lines))
       THEN /\ posts' = Append(posts, [roomName |-> RoomName,
                                       transcript |-> Join(transcript_lines)])
            /\ pc' = "delivering"
       ELSE /\ posts' = posts
            /\ pc' = "done"
    /\ UNCHANGED <<handlers, tracks, disconnect_event,
                   transcript_lines, response>>

\* a save that posts a second time when the first POST failed
DeliveryCompleteRetries ==
    /\ pc = "delivering"
    /\ \E r \in {"200", "500", "exception"} :
        /\ response' = r
        /\ IF r # "200" /\ Len(posts) < 2
           THEN posts' = Append(posts, posts[1]) /\ pc' = "delivering"
           ELSE posts' = posts /\ pc' = "done"
    /\ UNCHANGED <<handlers, tracks, disconnect_event,
                   transcript_lines, active_tasks, final_transcript>>

\* the POST ends with status 200, another status, or an exception;
\* save_transcript logs and returns, and so does entrypoint
DeliveryComplete ==
    /\ pc = "delivering"
    /\ \E r \in {"200", "500", "exception"} : response' = r
    /\ pc' = "done"
    /\ UNCHANGED <<handlers, tracks, disconnect_event,
                   transcript_lines, active_tasks, final_transcript, posts>>

\* ---------------------------------------------------------------- system
Next ==
    \/ ConnectReturn
    \/ TrackSubscribed
    \/ Disconnected
    \/ Finalize
    \/ DeliveryComplete
    \/ \E i \in 1..MaxTracks + 1 : WorkerConsume(i)
    \/ \E i \in 1..MaxTracks + 1 : WorkerEnd(i)
    \/ \E i \in 1..MaxTracks + 1 : WorkerFail(i)
    \/ \E i \in 1..MaxTracks + 1 : WorkerCancelled(i)

Spec == Init /\ [][Next]_vars

\* the event loop keeps running the controller's coroutine, and httpx ends
\* the POST within its 30 s timeout; nothing is assumed of the workers
FairSpec ==
    /\ Spec
    /\ WF_vars(ConnectReturn)
    /\ WF_vars(Finalize)
    /\ WF_vars(DeliveryComplete)

TypeOK ==
    /\ pc \in {"connecting", "waiting", "delivering", "done"}
    /\ handlers \subseteq {"track_subscribed", "disconnected"}
    /\ disconnect_event \in BOOLEAN
    /\ Len(tracks) <= MaxTracks
    /\ Len(active_tasks) <= Len(tracks)
    /\ Len(posts) <= 1
    /\ response \in {"none", "200", "500", "exception"}

\* ---------------------------------------------------------------- properties
IsPrefix(a, b) == Len(a) <= Len(b) /\ SubSeq(b, 1, Len(a)) = a

\* the controller leaves its wait for room-closed in this step
LeavesWait == pc = "waiting" /\ pc' # "waiting"

\* a final event whose first alternative has text left after trimming
IsFinalNonEmpty(event) ==
    /\ event.type = "FINAL_TRANSCRIPT"
    /\ event.alternatives # <<>>
    /\ Strip(event.alternatives[1]) # <<>>

\* how many of the first n events of a stream are final and non-empty
RECURSIVE CountFinal(_, _)
CountFinal(stream, n) ==
    IF n = 0 THEN 0
    ELSE CountFinal(stream, n - 1) + (IF IsFinalNonEmpty(stream[n]) THEN 1 ELSE 0)

RECURSIVE SumConsumed(_)
SumConsumed(n) ==
    IF n = 0 THEN 0
    ELSE SumConsumed(n - 1)
         + CountFinal(StreamOf(active_tasks[n]), active_tasks[n].pos)

\* the lines a worker emits when it consumes its whole stream
RECURSIVE SegmentLines(_, _)
SegmentLines(speaker, stream) ==
    IF stream = <<>> THEN <<>>
    ELSE (IF IsFinalNonEmpty(Head(stream))
          THEN <<speaker \o <<":", " ">> \o Strip(Head(stream).alternatives[1])>>
          ELSE <<>>)
         \o SegmentLines(speaker, Tail(stream))

\* t is an interleaving of the sequences rem[i] that keeps each one's order
RECURSIVE IsMerge(_, _)
IsMerge(t, rem) ==
    IF t = <<>> THEN \A i \in DOMAIN rem : rem[i] = <<>>
    ELSE \E i \in DOMAIN rem :
            /\ rem[i] # <<>>
            /\ Head(rem[i]) = Head(t)
            /\ IsMerge(Tail(t), [rem EXCEPT ![i] = Tail(rem[i])])

\* the lines of a newline-joined string
RECURSIVE SplitLines(_, _)
SplitLines(s, cur) ==
    IF s = <<>> THEN <<cur>>
    ELSE IF Head(s) = "\n" THEN <<cur>> \o SplitLines(Tail(s), <<>>)
    ELSE SplitLines(Tail(s), Append(cur, Head(s)))

LineAliceHello == Alice \o <<":", " ">> \o TxtHello
LineBobHi == Bob \o <<":", " ">> \o <<"H", "i">>
LineBobYo == Bob \o <<":", " ">> \o TxtYo

\* C1: save_transcript is invoked at most once per session and never before
\* the disconnected signal was set; when the controller leaves its wait with a
\* non-empty transcript it is invoked exactly once, and never again later
C1_DeliveredOnceAfterClose ==
    /\ [](Len(posts) <= 1 /\ (posts # <<>> => disconnect_event))
    /\ [][LeavesWait =>
            Len(posts') = (IF transcript_lines # <<>> THEN 1 ELSE 0)]_vars
    /\ [][pc # "waiting" => posts' = posts]_vars

C1_Witness ==
    /\ pc = "done"
    /\ Len(posts) = 1
    /\ Len(transcript_lines) >= 2

\* C2: when the transcript joined at finalize time is empty or whitespace
\* only, no delivery call is made and the session is over; in particular
\* when no stream was subscribed before room-closed was handled
C2_EmptyTranscriptNotDelivered ==
    (pc \in {"delivering", "done"} /\ Strip(final_transcript) = <<>>)
        => (posts = <<>> /\ pc = "done")

C2_Witness ==
    /\ pc = "done"
    /\ tracks = <<>>
    /\ disconnect_event
    /\ posts = <<>>

\* C3: consuming an interim event, a final event without alternatives or a
\* final event with blank text leaves the transcript unchanged, consuming a
\* final event with non-empty trimmed text appends exactly one line; so the
\* number of lines equals the number of final non-empty events consumed
C3_OneLinePerFinalSegment ==
    /\ [](Len(transcript_lines) = SumConsumed(Len(active_tasks)))
    /\ [][\A i \in DOMAIN active_tasks :
            active_tasks'[i].pos # active_tasks[i].pos =>
              LET event == StreamOf(active_tasks[i])[active_tasks[i].pos + 1]
              IN /\ active_tasks'[i].pos = active_tasks[i].pos + 1
                 /\ IsPrefix(transcript_lines, transcript_lines')
                 /\ Len(transcript_lines') =
                      Len(transcript_lines)
                        + (IF IsFinalNonEmpty(event) THEN 1 ELSE 0)]_vars

C3_Witness ==
    /\ Len(active_tasks) = 2
    /\ StreamOf(active_tasks[1]) = StreamHello
    /\ StreamOf(active_tasks[2]) = StreamQuiet
    /\ active_tasks[1].pos = 2
    /\ active_tasks[2].pos = 2
    /\ transcript_lines = <<LineAliceHello>>

\* C4: when every worker has consumed its stream to its natural end, the
\* transcript is an interleaving of the workers' line sequences that keeps
\* each worker's order, with no line duplicated or dropped
C4_MergeOfWorkerLines ==
    (\A i \in DOMAIN active_tasks : active_tasks[i].state = "finished")
        => IsMerge(transcript_lines,
                   [i \in DOMAIN active_tasks |->
                      SegmentLines(active_tasks[i].participant_name,
                                   StreamOf(active_tasks[i]))])

C4_Witness ==
    /\ Len(active_tasks) = 2
    /\ \A i \in DOMAIN active_tasks : active_tasks[i].state = "finished"
    /\ transcript_lines = <<LineBobHi, LineAliceHello, LineBobYo>>

\* C5: once the controller has taken the snapshot of the transcript, the
\* list of lines never changes again
C5_NoAppendAfterSnapshot ==
    [][(pc \in {"delivering", "done"}) => transcript_lines' = transcript_lines]_vars

\* cancellation of task i has been issued by the controller
CancelIssued(t) == t.must_cancel

\* C6: from the moment its cancellation is issued a worker consumes no
\* further event and so appends no line, even with events still pending in
\* its stream, and the lines appended before stay where they are
C6_CancelledWorkerStopsAppending ==
    [][\A i \in DOMAIN active_tasks :
         (CancelIssued(active_tasks[i]) \/ CancelIssued(active_tasks'[i])) =>
            /\ active_tasks'[i].pos = active_tasks[i].pos
            /\ active_tasks'[i].state \in {active_tasks[i].state, "cancelled"}
            /\ IsPrefix(transcript_lines, transcript_lines')]_vars

C6_Witness ==
    \E i \in DOMAIN active_tasks :
        /\ active_tasks[i].state = "cancelled"
        /\ StreamOf(active_tasks[i]) = StreamHiYo
        /\ active_tasks[i].pos = 1
        /\ transcript_lines = <<LineBobHi>>
        /\ pc = "done"

\* C7: the step in which one worker fails changes nothing but that worker's
\* own state: the controller stays where it is, no sibling is cancelled or
\* stopped, and the transcript keeps every line
C7_WorkerFailureIsolated ==
    [][\A i \in DOMAIN active_tasks :
         (active_tasks[i].state = "running" /\ active_tasks'[i].state = "failed") =>
            /\ pc' = pc
            /\ handlers' = handlers
            /\ disconnect_event' = disconnect_event
            /\ transcript_lines' = transcript_lines
            /\ posts' = posts
            /\ active_tasks'[i].pos = active_tasks[i].pos
            /\ \A j \in DOMAIN active_tasks :
                 j # i => active_tasks'[j] = active_tasks[j]]_vars

C7_Witness ==
    /\ Len(active_tasks) = 2
    /\ active_tasks[1].state = "failed"
    /\ active_tasks[1].pos = 1
    /\ active_tasks[2].state = "finished"
    /\ transcript_lines = <<LineBobHi, LineAliceHello>>
    /\ pc = "done"
    /\ Len(posts) = 1

\* C8: the string handed to save_transcript splits at its newlines into
\* exactly the lines the list holds at the snapshot, in order, and the
\* payload never changes afterwards, whatever is appended later
C8_PayloadIsSnapshot ==
    /\ [][(posts = <<>> /\ posts' # <<>>) =>
            /\ Len(posts') = 1
            /\ posts'[1].roomName = RoomName
            /\ SplitLines(posts'[1].transcript, <<>>) = transcript_lines
            /\ transcript_lines' = transcript_lines]_vars
    /\ [][posts # <<>> => posts' = posts]_vars

C8_Witness ==
    /\ Len(posts) = 1
    /\ posts[1].transcript = LineAliceHello
    /\ Len(active_tasks) = 2
    /\ active_tasks[1].pos = 2
    /\ transcript_lines = <<LineAliceHello, LineBobHi>>

\* C9: once room-closed has fired, the session always reaches its terminal
\* state, whatever the workers do (no fairness is assumed of any worker)
C9_Terminates == disconnect_event ~> (pc = "done")

C9_Witness ==
    /\ pc = "done"
    /\ \E i \in DOMAIN active_tasks :
         /\ active_tasks[i].state = "running"
         /\ active_tasks[i].must_cancel
         /\ active_tasks[i].pos < Len(StreamOf(active_tasks[i]))

\* C10: every audio track the room has reported subscribed has exactly one
\* transcription task, and a track that is not audio has none
C10_OneWorkerPerAudioTrack ==
    \A k \in DOMAIN tracks :
        Cardinality({i \in DOMAIN active_tasks : active_tasks[i].track = k})
            = (IF tracks[k].kind = "KIND_AUDIO" THEN 1 ELSE 0)
\* C11: when the POST ends with a status other than 200 or with an
\* exception, save_transcript returns normally: the session goes to its
\* terminal state in that step with the one delivery attempt recorded, and
\* no further attempt is ever made
C11_FailedDeliveryNotRetried ==
    /\ [][(response = "none" /\ response' \in {"500", "exception"}) =>
            /\ pc = "delivering"
            /\ pc' = "done"
            /\ posts' = posts
            /\ Len(posts') = 1]_vars
    /\ [][response # "none" => (posts' = posts /\ pc' = "done")]_vars

C11_Witness ==
    /\ pc = "done"
    /\ response = "exception"
    /\ Len(posts) = 1
    /\ posts[1].transcript = final_transcript
\* C12: the transcript is append-only: every step of a worker, of the
\* cancellation, of a failure and of finalize leaves the lines already in
\* the list in place, so an earlier transcript is a prefix of a later one
C12_TranscriptAppendOnly ==
    [][IsPrefix(transcript_lines, transcript_lines')]_vars

C12_Witness ==
    /\ pc = "done"
    /\ Len(transcript_lines) = 2
    /\ \E i \in DOMAIN active_tasks : active_tasks[i].state = "failed"
    /\ \E i \in DOMAIN active_tasks : active_tasks[i].state = "cancelled"

\* C13: the cancel loop marks every registered task that is still running
\* as cancelled-pending and leaves a task that has finished or failed
\* exactly as it was, together with the transcript; cancelling a task a
\* second time changes nothing more
C13_CancelAllIdempotent ==
    /\ [][LeavesWait =>
            /\ transcript_lines' = transcript_lines
            /\ DOMAIN active_tasks' = DOMAIN active_tasks
            /\ \A i \in DOMAIN active_tasks :
                 IF active_tasks[i].state = "running"
                 THEN active_tasks'[i] =
                        [active_tasks[i] EXCEPT !.must_cancel = TRUE]
                 ELSE active_tasks'[i] = active_tasks[i]]_vars
    /\ [](\A i \in DOMAIN active_tasks :
            /\ Cancel(Cancel(active_tasks[i])) = Cancel(active_tasks[i])
            /\ active_tasks[i].state # "running" =>
                 Cancel(active_tasks[i]) = active_tasks[i])

C13_Witness ==
    /\ pc = "done"
    /\ Len(active_tasks) = 2
    /\ active_tasks[1].state = "finished"
    /\ ~active_tasks[1].must_cancel
    /\ active_tasks[2].state = "running"
    /\ active_tasks[2].must_cancel
    /\ Len(transcript_lines) >= 1
\* C14: in the step in which the controller takes the snapshot, no worker
\* it has cancelled is still waiting to process its cancellation
C14_SnapshotAfterWorkersStopped ==
    [][LeavesWait =>
         \A i \in DOMAIN active_tasks' :
            ~(active_tasks'[i].state = "running" /\ active_tasks'[i].must_cancel)]_vars

\* the lifecycle phase of the session: Idle, Connected or Active, Draining,
\* Terminated
PhaseRank(p) ==
    CASE p = "connecting" -> 0
      [] p = "waiting" -> 1
      [] p = "delivering" -> 2
      [] p = "done" -> 3

\* C15: the phase only moves forward, the controller leaves the active
\* phase only on the room-closed signal, and once the session is terminated
\* there is no further transition, no worker is registered, no
\* cancellation is issued and no delivery is made
C15_LifecycleForwardOnly ==
    /\ [][PhaseRank(pc') >= PhaseRank(pc)]_vars
    /\ [][LeavesWait => disconnect_event]_vars
    /\ [][pc = "done" =>
            /\ pc' = "done"
            /\ posts' = posts
            /\ Len(active_tasks') = Len(active_tasks)
            /\ \A i \in DOMAIN active_tasks :
                 active_tasks'[i].must_cancel = active_tasks[i].must_cancel]_vars

\* C16: the list of registered tasks holds no task that has been cancelled,
\* has completed or has failed
C16_RegistryHoldsOnlyLiveWorkers ==
    \A i \in DOMAIN active_tasks :
        active_tasks[i].state = "running" /\ ~active_tasks[i].must_cancel
\* the label a line of this participant is to carry
ExpectedLabel(p) ==
    CASE p.name # <<>> -> p.name
      [] p.name = <<>> /\ p.identity # <<>> -> p.identity
      [] p.name = <<>> /\ p.identity = <<>> -> <<"U", "n", "k", "n", "o", "w", "n">>

LineUnknownOk == <<"U", "n", "k", "n", "o", "w", "n", ":", " ", "O", "k">>

\* C17: the transcript is an interleaving of, for each worker, the lines
\* "<label>: <trimmed text>" of the final non-empty events that worker has
\* consumed, one line per event, the label being the participant's name,
\* else the identity, else "Unknown"; so no line carries another worker's
\* label or text from two events
C17_LinesAttributedToTheirWorker ==
    IsMerge(transcript_lines,
            [i \in DOMAIN active_tasks |->
               SegmentLines(ExpectedLabel(tracks[active_tasks[i].track].participant),
                            SubSeq(StreamOf(active_tasks[i]), 1,
                                   active_tasks[i].pos))])

C17_Witness ==
    /\ Len(active_tasks) = 2
    /\ tracks[active_tasks[1].track].participant = PBob
    /\ tracks[active_tasks[2].track].participant = PAnon
    /\ transcript_lines = <<LineBobHi, LineUnknownOk, LineBobYo>>

\* C18: in the step in which the session reaches its terminal state, every
\* task that was ever started has ended or has had its cancellation issued
C18_NoWorkerOutlivesSession ==
    [][(pc # "done" /\ pc' = "done") =>
         \A i \in DOMAIN active_tasks' :
            active_tasks'[i].state # "running" \/ active_tasks'[i].must_cancel]_vars
\* C19: the room-closed signal is latched: once the handler has set the
\* event it stays set, and the controller eventually leaves its wait,
\* cancels the tasks and takes the snapshot
C19_SignalLatchedAndServed ==
    /\ [][disconnect_event => disconnect_event']_vars
    /\ disconnect_event ~> (pc \in {"delivering", "done"})

C19_Witness ==
    /\ pc = "delivering"
    /\ disconnect_event
    /\ "disconnected" \in handlers
    /\ \A i \in DOMAIN active_tasks :
         active_tasks[i].state = "running" => active_tasks[i].must_cancel
    /\ Len(active_tasks) = 2

\* C20: a task has a cancellation pending or has ended cancelled only after
\* the controller has observed room-closed; while the controller is still
\* connecting or waiting a task stops only by the end of its stream or by
\* its own failure
C20_NoCancelBeforeClose ==
    \A i \in DOMAIN active_tasks :
        /\ (active_tasks[i].must_cancel \/ active_tasks[i].state = "cancelled")
              => (disconnect_event /\ pc \in {"delivering", "done"})
        /\ pc \in {"connecting", "waiting"}
              => active_tasks[i].state \in {"running", "finished", "failed"}

C20_Witness ==
    /\ pc = "waiting"
    /\ ~disconnect_event
    /\ Len(active_tasks) = 2
    /\ active_tasks[1].state = "finished"
    /\ active_tasks[2].state = "failed"
    /\ Len(transcript_lines) >= 2
====
